---- MODULE Spec2Model ----
(***************************************************************************)
(* State-machine model of the security chatbot: SecurityRAGPipeline        *)
(* (rag_pipeline.py) with its FAISS index, its parallel documents/metadata *)
(* lists and the persisted vector store; the CVE collector                 *)
(* (cve_collector.py); SecurityChatbot and create_chatbot (chatbot.py) and *)
(* the knowledge-base refresh of the application (app.py).                 *)
(*                                                                         *)
(* A text is a sequence of words separated by single blanks; a word is an  *)
(* integer that stands for a run of WordLen(w) characters.  A vector is a  *)
(* tuple of integers of the embedder's dimension.                          *)
(***************************************************************************)
EXTENDS Integers, Sequences, FiniteSets, TLC

VARIABLES
    embedding_model,  \* name of the model the instance was constructed with
    dimension,        \* self.dimension
    index,            \* self.index: NoIndex (None) or an IndexFlatL2
    documents,        \* self.documents: sequence of chunks
    metadata,         \* self.metadata: sequence of metadata dicts
    disk,             \* the vector_store directory: index file and documents file
    op,               \* the last call: its name and arguments (for a chatbot
                      \* call also the history it found)
    returned,         \* how the last call ended: a return value or "raise:<Error>"
    results,          \* the list returned by the last retrieve
    pre,              \* index, documents and metadata before the last call
    built,            \* history: a build or load has completed normally on this instance
    saved,            \* history: the store, and its model, that the directory was
                      \* last written from, if any
    build_call,       \* a build_knowledge_base running statement by statement:
                      \* its position and locals, if any
    readers,          \* per thread, a retrieve running statement by statement
    query_embedding,  \* per thread, retrieve's local query_embedding
    feed,             \* what the NVD API answers to the collector's request
    cves,             \* the list the collector returned last
    chatbot,          \* the session's SecurityChatbot, if one was created
    conversation_history,  \* the chatbot's conversation_history
    cve_file,         \* data/cve_data.json: Absent or the list last dumped to it
    reply,            \* what the chatbot's last call returned
    chat_calls,       \* history: the chat calls that returned since the chatbot's
                      \* construction or its last clear_history
    setup             \* create_chatbot or refresh_knowledge_base running call by
                      \* call: its position and the pipeline calls it has made

\* what the calls on the pipeline instance leave alone
aside == <<build_call, readers, query_embedding, feed, cves>>

\* the chatbot and the application around the pipeline
app == <<chatbot, conversation_history, cve_file, reply, chat_calls, setup>>

vars == <<embedding_model, dimension, index, documents, metadata, disk,
          op, returned, results, pre, built, saved, aside, app>>

----------------------------------------------------------------------------
(* Bounds of the model *)

MaxWord == 2      \* words are 1..MaxWord
MaxCves == 2      \* longest cve_data list
MaxStore == 4     \* add_custom_document is explored while the store is below this
MaxK == 3         \* largest top_k
MaxThreads == 2   \* threads that call retrieve
MaxRaw == 2       \* longest list of raw vulnerability records
MaxTextWords == 3 \* most words of a text given to the splitter alone
MaxChats == 2     \* chat is explored while the history is shorter than this
MaxContext == 3   \* longest list of context documents given to _extract_sources

Words == 1..MaxWord

----------------------------------------------------------------------------
(* Python helpers *)

RECURSIVE Concat(_)
\* the concatenation of a sequence of sequences
Concat(ss) == IF ss = <<>> THEN <<>> ELSE Head(ss) \o Concat(Tail(ss))

RECURSIVE SumSeq(_)
SumSeq(s) == IF s = <<>> THEN 0 ELSE Head(s) + SumSeq(Tail(s))

\* dict.get(key, default)
Get(d, key, default) == IF key \in DOMAIN d THEN d[key] ELSE default

\* does list[idx] raise IndexError, for a (0-based, possibly negative) Python index
PyIndexRaises(s, idx) == idx >= Len(s) \/ idx < 0 - Len(s)

\* list[idx] for a Python index that does not raise: negative counts from the end
PyIndex(s, idx) == IF idx >= 0 THEN s[idx + 1] ELSE s[Len(s) + idx + 1]

----------------------------------------------------------------------------
(* The text splitter: RecursiveCharacterTextSplitter(chunk_size=800,        *)
(* chunk_overlap=100, length_function=len)                                  *)

chunk_size == 800
chunk_overlap == 100

\* number of characters of a word: 200, 400, 600, ...; the word 0 is empty,
\* so that <<0, 1>> is a text that starts with a blank and <<1, 0, 1>> one
\* with two blanks in a row
WordLen(w) == 200 * w

\* len(text): the words and the blanks between them
TextLen(t) == SumSeq([i \in 1..Len(t) |-> WordLen(t[i])])
              + (IF Len(t) > 1 THEN Len(t) - 1 ELSE 0)

RECURSIVE PopOverlap(_, _)
\* after a chunk is emitted, words are dropped from its front until what is
\* kept fits in chunk_overlap and the next word fits in chunk_size
PopOverlap(cur, nextLen) ==
    IF cur # <<>> /\ (TextLen(cur) > chunk_overlap
                      \/ TextLen(cur) + nextLen + 1 > chunk_size)
    THEN PopOverlap(Tail(cur), nextLen)
    ELSE cur

RECURSIVE MergeSplits(_, _)
\* greedy merge of the words of a text into chunks of at most chunk_size
\* characters; cur is the chunk being filled
MergeSplits(ws, cur) ==
    IF ws = <<>>
    THEN IF cur = <<>> THEN <<>> ELSE <<cur>>
    ELSE LET w == Head(ws)
             sep == IF cur = <<>> THEN 0 ELSE 1
         IN  IF TextLen(cur) + WordLen(w) + sep > chunk_size /\ cur # <<>>
             THEN <<cur>> \o MergeSplits(Tail(ws), Append(PopOverlap(cur, WordLen(w)), w))
             ELSE MergeSplits(Tail(ws), Append(cur, w))

RECURSIVE StripLeft(_)
StripLeft(t) == IF t # <<>> /\ Head(t) = 0 THEN StripLeft(Tail(t)) ELSE t

RECURSIVE StripRight(_)
StripRight(t) ==
    IF t # <<>> /\ t[Len(t)] = 0 THEN StripRight(SubSeq(t, 1, Len(t) - 1)) ELSE t

\* str.strip(): the splitter joins the pieces of a chunk and strips the
\* whitespace at both ends
StripText(t) == StripRight(StripLeft(t))

\* text_splitter.split_text(text): the chunk contents, in order; each chunk is
\* stripped, and a chunk that is empty then is not emitted (no chunk for "")
SplitText(t) ==
    LET merged == MergeSplits(t, <<>>)
    IN  SelectSeq([i \in 1..Len(merged) |-> StripText(merged[i])],
                  LAMBDA c : c # <<>>)

\* Document(page_content=..., metadata=...)
Document(content, md) == [page_content |-> content, metadata |-> md]

\* text_splitter.split_documents([doc]): every chunk carries a copy of the metadata
SplitDocument(doc) ==
    LET cs == SplitText(doc.page_content)
    IN  [i \in 1..Len(cs) |-> Document(cs[i], doc.metadata)]

\* text_splitter.split_documents(docs): the chunks of each document, in document order
SplitDocuments(docs) == Concat([i \in 1..Len(docs) |-> SplitDocument(docs[i])])

----------------------------------------------------------------------------
(* The embedder: SentenceTransformer(embedding_model)                       *)

DefaultModel == "all-MiniLM-L6-v2"
OtherModel == "other-model"
Models == {DefaultModel, OtherModel}

\* embedding_model.get_sentence_embedding_dimension()
Dimension(m) == IF m = DefaultModel THEN 2 ELSE 1

\* number of occurrences of word w in a text
Count(t, w) == Cardinality({i \in 1..Len(t) : t[i] = w})

\* embedding_model.encode([text])[0]: deterministic, of the model's dimension
Embed(m, t) == [i \in 1..Dimension(m) |-> Count(t, i)]

\* embedding_model.encode(texts) for a non-empty list: one row per text
Encode(m, texts) == [i \in 1..Len(texts) |-> Embed(m, texts[i])]

----------------------------------------------------------------------------
(* The vector index: faiss.IndexFlatL2                                      *)

\* self.index = None
NoIndex == [null |-> TRUE, d |-> 0, xb |-> <<>>]

\* faiss.IndexFlatL2(d): an empty index of dimension d
IndexFlatL2(d) == [null |-> FALSE, d |-> d, xb |-> <<>>]

\* index.ntotal
ntotal(ix) == Len(ix.xb)

\* (mutant) the new rows are put before the stored ones
IndexAdd_Prepends(ix, x) == [ix EXCEPT !.xb = x \o ix.xb]

\* index.add(x) for rows of the index's dimension: appended in order
IndexAdd(ix, x) == [ix EXCEPT !.xb = ix.xb \o x]

\* squared Euclidean distance
L2(u, v) == SumSeq([i \in 1..Len(u) |-> (u[i] - v[i]) * (u[i] - v[i])])

\* distance reported for a position without a neighbour (the largest float)
NoNeighbourDistance == 1000000

\* label reported for a position without a neighbour
NoNeighbourLabel == -1

\* (mutant) the neighbours come farthest first
IndexSearch_FarthestFirst(ix, q, k) ==
    LET n == ntotal(ix)
        dist(i) == L2(ix.xb[i], q)
        before(i, j) == dist(i) > dist(j) \/ (dist(i) = dist(j) /\ i < j)
        rank(i) == Cardinality({j \in 1..n : before(j, i)}) + 1
        at(r) == CHOOSE i \in 1..n : rank(i) = r
    IN  [r \in 1..k |->
            IF r <= n
            THEN [label |-> at(r) - 1, distance |-> dist(at(r))]
            ELSE [label |-> NoNeighbourLabel, distance |-> NoNeighbourDistance]]

\* index.search(q, k) for k > 0 and a query of the index's dimension: k
\* (label, distance) pairs, the stored vectors nearest first (ties: lower
\* label first), then the no-neighbour filler
IndexSearch(ix, q, k) ==
    LET n == ntotal(ix)
        dist(i) == L2(ix.xb[i], q)
        before(i, j) == dist(i) < dist(j) \/ (dist(i) = dist(j) /\ i < j)
        rank(i) == Cardinality({j \in 1..n : before(j, i)}) + 1
        at(r) == CHOOSE i \in 1..n : rank(i) = r
    IN  [r \in 1..k |->
            IF r <= n
            THEN [label |-> at(r) - 1, distance |-> dist(at(r))]
            ELSE [label |-> NoNeighbourLabel, distance |-> NoNeighbourDistance]]

----------------------------------------------------------------------------
(* Persistence: faiss.write_index / faiss.read_index and pickle             *)

\* no file at the path
Absent == [exists |-> FALSE, valid |-> FALSE, content |-> <<>>]

\* a file that cannot be parsed (truncated or overwritten)
Garbage == [exists |-> TRUE, valid |-> FALSE, content |-> <<>>]

\* faiss.write_index(index, path): the type tag, dimension, count, then the
\* rows flattened
WriteIndex(ix) ==
    [exists |-> TRUE, valid |-> TRUE,
     content |-> <<"IxF2", ix.d, ntotal(ix)>> \o Concat(ix.xb)]

\* (mutant) the rows are read back in reverse order
ReadIndex_RowsReversed(f) ==
    LET d == f.content[2]
        n == f.content[3]
    IN  IF f.content[1] = "null"
        THEN NoIndex
        ELSE [null |-> FALSE, d |-> d,
              xb |-> [i \in 1..n |-> [j \in 1..d |-> f.content[3 + (n - i) * d + j]]]]

\* faiss.read_index(path) of a valid file: the rows are cut out of the flat data
ReadIndex(f) ==
    LET d == f.content[2]
        n == f.content[3]
    IN  IF f.content[1] = "null"
        THEN NoIndex
        ELSE [null |-> FALSE, d |-> d,
              xb |-> [i \in 1..n |-> [j \in 1..d |-> f.content[3 + (i - 1) * d + j]]]]

\* pickle.dump({'documents': ..., 'metadata': ...}, f): the dict's items in order
PickleDump(docs, mds) ==
    [exists |-> TRUE, valid |-> TRUE,
     content |-> << <<"documents", docs>>, <<"metadata", mds>> >>]

\* the keys of the dict pickle.load(f) gives for a valid file
PickleKeys(f) == {f.content[i][1] : i \in 1..Len(f.content)}

\* pickle.load(f)[key] for a key of the dict
PickleLoad(f, key) ==
    f.content[CHOOSE i \in 1..Len(f.content) : f.content[i][1] = key][2]

----------------------------------------------------------------------------
(* Inputs *)

\* the keys build_knowledge_base reads from a CVE dict with cve[...]
CveKeys == {"full_text", "cve_id", "severity", "cvss_score", "published_date"}

Cve(id, text, severity, score) ==
    [cve_id |-> id, full_text |-> text, severity |-> severity,
     cvss_score |-> score, published_date |-> "2024-01-01"]

\* CVE dicts as _parse_cves or a data file supply them: the text of the first
\* is one chunk, the text of the second is split
GoodCves ==
    { Cve("CVE-1", <<1>>, "HIGH", 8),
      Cve("CVE-2", <<MaxWord, MaxWord, 1>>, "LOW", 2) }

\* a CVE dict that lacks full_text
BadCve == [cve_id |-> "CVE-3", severity |-> "HIGH", cvss_score |-> 7,
           published_date |-> "2024-01-01"]

\* infrastructure dicts: type is optional; description is read with [...]
\* create_sample_infrastructure: four assets, each described by a text of some
\* four hundred characters between a leading and a trailing run of whitespace
SampleInfrastructure ==
    << [name |-> "Web Server Cluster", type |-> "servers",
        description |-> <<0, 2, 0>>],
       [name |-> "Database Server", type |-> "database",
        description |-> <<0, 1, 1, 0>>],
       [name |-> "Application Server", type |-> "application",
        description |-> <<0, 2, 0>>],
       [name |-> "Network Infrastructure", type |-> "network",
        description |-> <<0, 1, 1, 0>>] >>

GoodInfra == [name |-> "Web Server Cluster", description |-> <<1, 1>>]
BadInfra == [name |-> "Database Server", type |-> "database"]

\* lists of at most n elements of S
SeqUpTo(S, n) == UNION {[1..m -> S] : m \in 0..n}

\* the cve_data lists: well-formed ones, and ones with a malformed record
CveLists(n) ==
    SeqUpTo(GoodCves, n) \cup {<<BadCve>>, <<Cve("CVE-1", <<1>>, "HIGH", 8), BadCve>>}

\* the infrastructure_data lists; None is the empty list (both are falsy)
InfraLists == {<<>>, <<GoodInfra>>, <<BadInfra>>}

\* the texts and metadata given to add_custom_document
CustomTexts == {<<>>, <<MaxWord, 1, MaxWord>>}
CustomMetadata == {[source |-> "custom"]}

\* a metadata dict without a 'source' key, which add_custom_document takes as given
UntaggedMetadata == [note |-> "untagged"]

AnyMetadata == CustomMetadata \cup {UntaggedMetadata}

Queries == {<<1>>, <<1, MaxWord>>}
TopKs == (0 - 1)..MaxK

\* the top_k of calls made from threads
ReaderTopKs == {1, MaxK}

----------------------------------------------------------------------------
(* The pipeline *)

Store(ix, docs, mds) == [index |-> ix, documents |-> docs, metadata |-> mds]

Snapshot == Store(index, documents, metadata)

\* nothing was saved, or the directory was changed since
NotSaved == <<>>

\* the threads that call into the instance
Threads == 1..MaxThreads

\* no build_knowledge_base is running statement by statement
NoCall == <<>>

\* a thread that is not inside retrieve
IdleReader == [pc |-> "idle"]

\* SecurityRAGPipeline.__init__ on a machine whose vector_store directory is empty
\* no SecurityChatbot yet (app.py: st.session_state.chatbot = None)
NoChatbot == [null |-> TRUE]

\* data/cve_data.json does not exist
NoCveFile == [exists |-> FALSE, cves |-> <<>>]

\* nothing returned by the chatbot yet
NoReply == [response |-> "", context_documents |-> <<>>, sources |-> <<>>]

\* neither create_chatbot nor refresh_knowledge_base is running
NoSetup ==
    [name |-> "", pc |-> "idle", calls |-> <<>>, result |-> "", fetched |-> <<>>,
     use_ollama |-> FALSE]

Constructed ==
    /\ embedding_model = DefaultModel
    /\ dimension = Dimension(DefaultModel)
    /\ index = NoIndex
    /\ documents = <<>>
    /\ metadata = <<>>
    /\ disk = [index_file |-> Absent, docs_file |-> Absent]
    /\ op = [name |-> "__init__", embedding_model |-> DefaultModel]
    /\ returned = "None"
    /\ results = <<>>
    /\ pre = Store(NoIndex, <<>>, <<>>)
    /\ built = FALSE
    /\ saved = NotSaved
    /\ build_call = NoCall
    /\ readers = [t \in Threads |-> IdleReader]
    /\ query_embedding = [t \in Threads |-> <<>>]
    /\ cves = <<>>
    /\ chatbot = NoChatbot
    /\ conversation_history = <<>>
    /\ cve_file = NoCveFile
    /\ reply = NoReply
    /\ chat_calls = 0
    /\ setup = NoSetup

\* the pipeline, with a feed that has nothing to answer
Init == Constructed /\ feed = [vulnerabilities |-> <<>>, requestFails |-> FALSE]

\* SecurityRAGPipeline(embedding_model): a fresh instance takes the place of
\* the old one; the directory on disk stays
NewPipeline(m) ==
    /\ embedding_model' = m
    /\ dimension' = Dimension(m)
    /\ index' = NoIndex
    /\ documents' = <<>>
    /\ metadata' = <<>>
    /\ op' = [name |-> "__init__", embedding_model |-> m]
    /\ returned' = "None"
    /\ results' = <<>>
    /\ pre' = Snapshot
    /\ UNCHANGED aside
    /\ built' = FALSE
    /\ UNCHANGED <<disk, saved>>

\* the Document build_knowledge_base makes of a CVE dict
CveDocument(cve) ==
    Document(cve.full_text,
             [source |-> "cve", cve_id |-> cve.cve_id, severity |-> cve.severity,
              cvss_score |-> cve.cvss_score, published_date |-> cve.published_date])

\* the Document build_knowledge_base makes of an infrastructure dict
InfraDocument(infra) ==
    Document(infra.description,
             [source |-> "infrastructure",
              asset_name |-> Get(infra, "name", "Unknown"),
              asset_type |-> Get(infra, "type", "Unknown")])

\* (mutant) the infrastructure documents come first
BuildDocuments_InfraFirst(cve_data, infrastructure_data) ==
    [i \in 1..Len(infrastructure_data) |-> InfraDocument(infrastructure_data[i])]
    \o [i \in 1..Len(cve_data) |-> CveDocument(cve_data[i])]

\* the documents list build_knowledge_base collects: CVEs, then infrastructure
BuildDocuments(cve_data, infrastructure_data) ==
    [i \in 1..Len(cve_data) |-> CveDocument(cve_data[i])]
    \o [i \in 1..Len(infrastructure_data) |-> InfraDocument(infrastructure_data[i])]

\* (mutant) the metadata of the first chunk is left out
MetadataOf_SkipsFirst(split_docs) ==
    [i \in 1..(Len(split_docs) - 1) |-> split_docs[i + 1].metadata]

\* [doc.metadata for doc in split_docs]
MetadataOf(split_docs) == [i \in 1..Len(split_docs) |-> split_docs[i].metadata]

\* [doc.page_content for doc in split_docs]
TextsOf(split_docs) == [i \in 1..Len(split_docs) |-> split_docs[i].page_content]

\* build_knowledge_base(cve_data, infrastructure_data); an absent or None
\* infrastructure_data is the empty list (both are falsy); encodeRaises: the
\* embedder fails
build_knowledge_base(cve_data, infrastructure_data, encodeRaises) ==
    LET keyError ==
            \/ \E i \in 1..Len(cve_data) : ~(CveKeys \subseteq DOMAIN cve_data[i])
            \/ \E i \in 1..Len(infrastructure_data) :
                   "description" \notin DOMAIN infrastructure_data[i]
        split_docs == SplitDocuments(BuildDocuments(cve_data, infrastructure_data))
        embeddings == Encode(embedding_model, TextsOf(split_docs))
    IN  /\ op' = [name |-> "build_knowledge_base", cve_data |-> cve_data,
                  infrastructure_data |-> infrastructure_data]
        /\ pre' = Snapshot
        /\ UNCHANGED aside
        /\ results' = <<>>
        /\ UNCHANGED <<embedding_model, dimension, disk, saved>>
        /\ IF keyError
           THEN /\ returned' = "raise:KeyError"
                /\ UNCHANGED <<index, documents, metadata>>
           ELSE IF encodeRaises
           THEN /\ returned' = "raise:RuntimeError"
                /\ UNCHANGED <<index, documents, metadata>>
           ELSE IF split_docs = <<>>
           THEN \* encode([]) is a 1-D empty array: index.add cannot unpack its
                \* shape, after self.index was replaced
                /\ index' = IndexFlatL2(dimension)
                /\ returned' = "raise:ValueError"
                /\ UNCHANGED <<documents, metadata>>
           ELSE /\ index' = IndexAdd(IndexFlatL2(dimension), embeddings)
                /\ documents' = split_docs
                /\ metadata' = MetadataOf(split_docs)
                /\ returned' = "None"
        /\ built' = (built \/ returned' = "None")

\* float(1 / (1 + distance)) as the fraction num/den
RelevanceScore(distance) == [num |-> 1, den |-> 1 + distance]

RECURSIVE Collect(_, _, _)
\* the result loop of retrieve over the (label, distance) pairs of the search:
\* a pair is used when idx < len(documents), and documents[idx], metadata[idx]
\* are Python subscripts; gives the results, or raised when a subscript fails
Collect(pairs, docs, mds) ==
    IF pairs = <<>>
    THEN [raised |-> FALSE, results |-> <<>>]
    ELSE LET idx == Head(pairs).label
             rest == Collect(Tail(pairs), docs, mds)
         IN  IF idx < Len(docs)
             THEN IF PyIndexRaises(docs, idx) \/ PyIndexRaises(mds, idx)
                  THEN [raised |-> TRUE, results |-> <<>>]
                  ELSE [raised |-> rest.raised,
                        results |->
                            IF rest.raised THEN <<>>
                            ELSE << [content |-> PyIndex(docs, idx).page_content,
                                     metadata |-> PyIndex(mds, idx),
                                     relevance_score |->
                                         RelevanceScore(Head(pairs).distance)] >>
                                 \o rest.results]
             ELSE rest

\* what retrieve(query, top_k) gives on a store: how it ends and the list
Retrieval(model, ix, docs, mds, query, top_k, encodeRaises) ==
    IF ix.null
    THEN [returned |-> "list", results |-> <<>>]
    ELSE IF encodeRaises
    THEN [returned |-> "raise:RuntimeError", results |-> <<>>]
    ELSE IF Dimension(model) # ix.d \/ top_k <= 0
    THEN \* index.search asserts the query's dimension and k > 0
         [returned |-> "raise:AssertionError", results |-> <<>>]
    ELSE LET c == Collect(IndexSearch(ix, Embed(model, query), top_k), docs, mds)
         IN  IF c.raised
             THEN [returned |-> "raise:IndexError", results |-> <<>>]
             ELSE [returned |-> "list", results |-> c.results]

\* retrieve(query, top_k)
retrieve(query, top_k, encodeRaises) ==
    LET r == Retrieval(embedding_model, index, documents, metadata,
                       query, top_k, encodeRaises)
    IN  /\ op' = [name |-> "retrieve", query |-> query, top_k |-> top_k,
                  encoded |-> ~index.null]
        /\ pre' = Snapshot
        /\ UNCHANGED aside
        /\ returned' = r.returned
        /\ results' = r.results
        /\ UNCHANGED <<embedding_model, dimension, index, documents, metadata, disk,
                       built, saved>>

\* add_custom_document(text, metadata)
add_custom_document(text, md, encodeRaises) ==
    LET split_docs == SplitDocument(Document(text, md))
        embeddings == Encode(embedding_model, TextsOf(split_docs))
    IN  /\ op' = [name |-> "add_custom_document", text |-> text, metadata |-> md]
        /\ pre' = Snapshot
        /\ UNCHANGED aside
        /\ results' = <<>>
        /\ UNCHANGED <<embedding_model, dimension, disk, built, saved>>
        /\ IF index.null
           THEN /\ returned' = "None"
                /\ UNCHANGED <<index, documents, metadata>>
           ELSE IF encodeRaises
           THEN /\ returned' = "raise:RuntimeError"
                /\ UNCHANGED <<index, documents, metadata>>
           ELSE IF split_docs = <<>>
           THEN /\ returned' = "raise:ValueError"
                /\ UNCHANGED <<index, documents, metadata>>
           ELSE IF index.d # dimension
           THEN \* index.add asserts the rows' dimension
                /\ returned' = "raise:AssertionError"
                /\ UNCHANGED <<index, documents, metadata>>
           ELSE /\ index' = IndexAdd(index, embeddings)
                /\ documents' = documents \o split_docs
                /\ metadata' = metadata \o MetadataOf(split_docs)
                /\ returned' = "None"

\* the file faiss.write_index leaves for a null index where it accepts one
NullIndexFile == [exists |-> TRUE, valid |-> TRUE, content |-> <<"null">>]

\* how faiss.write_index takes self.index = None: the binding rejects it, or
\* the file is opened and the writer then rejects it, or a null index is written
NullWrites == {"rejects", "truncates", "writes_null"}

\* save_index(directory)
save_index(nullWrite) ==
    /\ op' = [name |-> "save_index"]
    /\ pre' = Snapshot
    /\ UNCHANGED aside
    /\ results' = <<>>
    /\ UNCHANGED <<embedding_model, dimension, index, documents, metadata, built>>
    /\ IF index.null /\ nullWrite = "rejects"
       THEN /\ returned' = "raise:TypeError"
            /\ UNCHANGED <<disk, saved>>
       ELSE IF index.null /\ nullWrite = "truncates"
       THEN /\ returned' = "raise:RuntimeError"
            /\ disk' = [disk EXCEPT !.index_file = Garbage]
            /\ saved' = NotSaved
       ELSE /\ returned' = "None"
            /\ disk' = [index_file |-> IF index.null THEN NullIndexFile
                                       ELSE WriteIndex(index),
                        docs_file |-> PickleDump(documents, metadata)]
            /\ saved' = <<[store |-> Snapshot, embedding_model |-> embedding_model]>>

\* (mutant) only the index file is looked for
FilesPresent_IndexOnly(d) == d.index_file.exists

\* os.path.exists(index_path) and os.path.exists(docs_path)
FilesPresent(d) == d.index_file.exists /\ d.docs_file.exists

\* load_index(directory)
load_index ==
    /\ op' = [name |-> "load_index"]
    /\ pre' = Snapshot
    /\ UNCHANGED aside
    /\ results' = <<>>
    /\ UNCHANGED <<embedding_model, dimension, disk, saved>>
    /\ IF ~FilesPresent(disk)
       THEN /\ returned' = "False"
            /\ UNCHANGED <<index, documents, metadata>>
       ELSE IF ~disk.index_file.valid
       THEN /\ returned' = "raise:RuntimeError"
            /\ UNCHANGED <<index, documents, metadata>>
       ELSE /\ index' = ReadIndex(disk.index_file)
            /\ IF ~disk.docs_file.valid
               THEN /\ returned' = "raise:UnpicklingError"
                    /\ UNCHANGED <<documents, metadata>>
               ELSE IF "documents" \notin PickleKeys(disk.docs_file)
               THEN /\ returned' = "raise:KeyError"
                    /\ UNCHANGED <<documents, metadata>>
               ELSE IF "metadata" \notin PickleKeys(disk.docs_file)
               THEN /\ returned' = "raise:KeyError"
                    /\ documents' = PickleLoad(disk.docs_file, "documents")
                    /\ UNCHANGED metadata
               ELSE /\ returned' = "True"
                    /\ documents' = PickleLoad(disk.docs_file, "documents")
                    /\ metadata' = PickleLoad(disk.docs_file, "metadata")
    /\ built' = (built \/ returned' = "True")

----------------------------------------------------------------------------
(* The directory is also changed from outside the pipeline *)

\* a file of the directory is deleted
RemoveFile(file) ==
    /\ disk[file].exists
    /\ disk' = [disk EXCEPT ![file] = Absent]
    /\ op' = [name |-> "remove_file", file |-> file]
    /\ pre' = Snapshot
    /\ UNCHANGED aside
    /\ returned' = "None"
    /\ results' = <<>>
    /\ saved' = NotSaved
    /\ UNCHANGED <<embedding_model, dimension, index, documents, metadata, built>>

\* the documents file is overwritten: by bytes that do not unpickle (key =
\* "") or by a pickled dict that lacks the given key
DamageDocsFile(key) ==
    /\ disk.docs_file.exists /\ disk.docs_file.valid
    /\ disk' = [disk EXCEPT !.docs_file =
                   IF key = "" THEN Garbage
                   ELSE [@ EXCEPT !.content =
                            SelectSeq(@, LAMBDA item : item[1] # key)]]
    /\ disk'.docs_file # disk.docs_file
    /\ op' = [name |-> "damage_docs_file", key |-> key]
    /\ pre' = Snapshot
    /\ UNCHANGED aside
    /\ returned' = "None"
    /\ results' = <<>>
    /\ saved' = NotSaved
    /\ UNCHANGED <<embedding_model, dimension, index, documents, metadata, built>>

----------------------------------------------------------------------------
(* build_knowledge_base statement by statement, as another thread sees it *)

\* the pipeline's own fields and the directory
instance == <<embedding_model, dimension, index, documents, metadata, disk, saved>>

\* is a build_knowledge_base between its first and its last statement
BuildRunning ==
    build_call # NoCall /\ build_call[1].pc \in {"index", "add", "documents", "metadata"}

\* lines 71-114: the documents are made, split and encoded into locals
BuildBegin(cve_data, infrastructure_data, encodeRaises) ==
    LET keyError ==
            \/ \E i \in 1..Len(cve_data) : ~(CveKeys \subseteq DOMAIN cve_data[i])
            \/ \E i \in 1..Len(infrastructure_data) :
                   "description" \notin DOMAIN infrastructure_data[i]
        split_docs == SplitDocuments(BuildDocuments(cve_data, infrastructure_data))
        embeddings == Encode(embedding_model, TextsOf(split_docs))
    IN  /\ ~BuildRunning
        /\ op' = [name |-> "build_knowledge_base", cve_data |-> cve_data,
                  infrastructure_data |-> infrastructure_data]
        /\ pre' = Snapshot
        /\ results' = <<>>
        /\ returned' = IF keyError THEN "raise:KeyError"
                       ELSE IF encodeRaises THEN "raise:RuntimeError"
                       ELSE "running"
        /\ build_call' = IF keyError \/ encodeRaises THEN NoCall
                         ELSE <<[pc |-> "index", split_docs |-> split_docs,
                                 embeddings |-> embeddings, old |-> Snapshot]>>
        /\ UNCHANGED <<instance, built, readers, query_embedding, feed, cves, app>>

\* line 118: self.index = faiss.IndexFlatL2(self.dimension)
BuildNewIndex ==
    /\ build_call # NoCall
    /\ build_call[1].pc = "index"
    /\ index' = IndexFlatL2(dimension)
    /\ build_call' = <<[build_call[1] EXCEPT !.pc = "add"]>>
    /\ UNCHANGED <<embedding_model, dimension, documents, metadata, disk, saved,
                   op, returned, results, pre, built, readers, query_embedding, feed, cves, app>>

\* line 119: self.index.add(embeddings); an empty batch raises ValueError
BuildIndexAdd ==
    /\ build_call # NoCall
    /\ build_call[1].pc = "add"
    /\ IF build_call[1].split_docs = <<>>
       THEN /\ build_call' = <<[build_call[1] EXCEPT !.pc = "raised"]>>
            /\ UNCHANGED index
       ELSE /\ index' = IndexAdd(index, build_call[1].embeddings)
            /\ build_call' = <<[build_call[1] EXCEPT !.pc = "documents"]>>
    /\ UNCHANGED <<embedding_model, dimension, documents, metadata, disk, saved,
                   op, returned, results, pre, built, readers, query_embedding, feed, cves, app>>

\* line 122: self.documents = split_docs
BuildSetDocuments ==
    /\ build_call # NoCall
    /\ build_call[1].pc = "documents"
    /\ documents' = build_call[1].split_docs
    /\ build_call' = <<[build_call[1] EXCEPT !.pc = "metadata"]>>
    /\ UNCHANGED <<embedding_model, dimension, index, metadata, disk, saved,
                   op, returned, results, pre, built, readers, query_embedding, feed, cves, app>>

\* line 123: self.metadata = [doc.metadata for doc in split_docs]; the call returns
BuildSetMetadata ==
    /\ build_call # NoCall
    /\ build_call[1].pc = "metadata"
    /\ metadata' = MetadataOf(build_call[1].split_docs)
    /\ build_call' = <<[build_call[1] EXCEPT !.pc = "done"]>>
    /\ built' = TRUE
    /\ UNCHANGED <<embedding_model, dimension, index, documents, disk, saved,
                   op, returned, results, pre, readers, query_embedding, feed, cves, app>>

\* the store a running build started from, and the one it is making
OldStore == build_call[1].old

NewStore ==
    Store(IndexAdd(IndexFlatL2(dimension), build_call[1].embeddings),
          build_call[1].split_docs, MetadataOf(build_call[1].split_docs))

----------------------------------------------------------------------------
(* retrieve statement by statement, called from several threads *)

\* (mutant) query_embedding is one slot shared by all threads
EmbeddingSlot_Shared(t) == 1

\* query_embedding is a local of the call: each thread has its own
EmbeddingSlot(t) == t

\* a thread inside retrieve
Reader(pc, query, top_k, encodeRaises, start) ==
    [pc |-> pc, query |-> query, top_k |-> top_k, encodeRaises |-> encodeRaises,
     start |-> start, overlap |-> FALSE, pairs |-> <<>>,
     returned |-> "running", results |-> <<>>]

ReaderFrame ==
    UNCHANGED <<instance, op, returned, results, pre, built, build_call, feed, cves, app>>

\* lines 138-140: the call, and its early return when nothing is built
ReadBegin(t, query, top_k, encodeRaises) ==
    /\ readers[t].pc = "idle"
    /\ readers' = [readers EXCEPT ![t] =
           IF index.null
           THEN [Reader("done", query, top_k, encodeRaises, Snapshot)
                     EXCEPT !.returned = "list"]
           ELSE Reader("encode", query, top_k, encodeRaises, Snapshot)]
    /\ UNCHANGED query_embedding
    /\ ReaderFrame

\* lines 143-146: query_embedding = self.embedding_model.encode([query])
ReadEncode(t) ==
    /\ readers[t].pc = "encode"
    /\ IF readers[t].encodeRaises
       THEN /\ readers' = [readers EXCEPT ![t].pc = "done",
                                          ![t].returned = "raise:RuntimeError"]
            /\ UNCHANGED query_embedding
       ELSE /\ readers' = [readers EXCEPT ![t].pc = "search"]
            /\ query_embedding' = [query_embedding EXCEPT ![EmbeddingSlot(t)] =
                                       Embed(embedding_model, readers[t].query)]
    /\ ReaderFrame

\* lines 149-152: distances, indices = self.index.search(query_embedding, top_k)
ReadSearch(t) ==
    LET q == query_embedding[EmbeddingSlot(t)]
    IN  /\ readers[t].pc = "search"
        /\ readers' = [readers EXCEPT ![t] =
               IF Len(q) # index.d \/ readers[t].top_k <= 0
               THEN [@ EXCEPT !.pc = "done", !.returned = "raise:AssertionError"]
               ELSE [@ EXCEPT !.pc = "collect",
                              !.pairs = IndexSearch(index, q, readers[t].top_k),
                              !.overlap = \E u \in Threads \ {t} :
                                              readers[u].pc \in {"search", "collect"}]]
        /\ UNCHANGED query_embedding
        /\ ReaderFrame

\* lines 155-164: the result loop and the return
ReadCollect(t) ==
    LET c == Collect(readers[t].pairs, documents, metadata)
    IN  /\ readers[t].pc = "collect"
        /\ readers' = [readers EXCEPT ![t] =
               IF c.raised
               THEN [@ EXCEPT !.pc = "done", !.returned = "raise:IndexError"]
               ELSE [@ EXCEPT !.pc = "done", !.returned = "list",
                              !.results = c.results]]
        /\ UNCHANGED query_embedding
        /\ ReaderFrame

\* the caller has taken the result, and the call's locals are gone
ReadReturn(t) ==
    /\ readers[t].pc = "done"
    /\ readers' = [readers EXCEPT ![t] = IdleReader]
    /\ query_embedding' = [query_embedding EXCEPT ![EmbeddingSlot(t)] = <<>>]
    /\ ReaderFrame

----------------------------------------------------------------------------
(* The collector: raw NVD records are parsed into the CVE dicts of a build *)

\* {} and []
EmptyDict == <<>>

\* s[:n]
Prefix(s, n) == SubSeq(s, 1, IF Len(s) < n THEN Len(s) ELSE n)

\* the defaults of _parse_cves
UnknownId == "Unknown"
NoDescription == "No description available"
UnknownSeverity == "UNKNOWN"
NoScore == 0
NoPublished == ""
NoUrl == "None"

\* next((d['value'] for d in descriptions if d.get('lang') == 'en'), default)
EnglishDescription(descriptions) ==
    LET en == SelectSeq(descriptions, LAMBDA d : Get(d, "lang", "") = "en")
    IN  IF en = <<>>
        THEN [raised |-> "", value |-> NoDescription]
        ELSE IF "value" \notin DOMAIN en[1]
        THEN [raised |-> "KeyError", value |-> NoDescription]
        ELSE [raised |-> "", value |-> en[1].value]

\* (mutant) metrics['cvssMetricV31'] is read without a default
CvssData_Required(metrics) ==
    IF "cvssMetricV31" \notin DOMAIN metrics
    THEN [raised |-> "KeyError", value |-> EmptyDict]
    ELSE IF Len(metrics.cvssMetricV31) = 0
    THEN [raised |-> "IndexError", value |-> EmptyDict]
    ELSE [raised |-> "", value |-> Get(metrics.cvssMetricV31[1], "cvssData", EmptyDict)]

\* metrics.get('cvssMetricV31', [{}])[0].get('cvssData', {})
CvssData(metrics) ==
    LET list == Get(metrics, "cvssMetricV31", <<EmptyDict>>)
    IN  IF Len(list) = 0
        THEN [raised |-> "IndexError", value |-> EmptyDict]
        ELSE [raised |-> "", value |-> Get(list[1], "cvssData", EmptyDict)]

\* the criteria of the vulnerable cpeMatch entries, configuration by
\* configuration and node by node
AffectedProducts(configurations) ==
    LET ofNode(node) ==
            LET vulnerable == SelectSeq(Get(node, "cpeMatch", <<>>),
                                        LAMBDA m : Get(m, "vulnerable", FALSE))
            IN  [i \in 1..Len(vulnerable) |-> Get(vulnerable[i], "criteria", "")]
        ofConfig(config) ==
            LET nodes == Get(config, "nodes", <<>>)
            IN  Concat([j \in 1..Len(nodes) |-> ofNode(nodes[j])])
    IN  Concat([i \in 1..Len(configurations) |-> ofConfig(configurations[i])])

\* [ref.get('url') for ref in references[:3]]
ReferenceUrls(references) ==
    [i \in 1..Len(Prefix(references, 3)) |-> Get(references[i], "url", NoUrl)]

\* str.lower() of a severity
Lower(severity) ==
    CASE severity = "CRITICAL" -> "critical"
      [] severity = "HIGH" -> "high"
      [] severity = "UNKNOWN" -> "unknown"
      [] OTHER -> severity

\* _create_full_text: the values the template is filled with, in its order
CreateFullText(cve_id, description, cvss_score, severity, affected_products, published) ==
    <<cve_id, severity, cvss_score, published, description,
      Prefix(affected_products, 5), Lower(severity), cvss_score>>

\* the body of _parse_cves' loop for one raw record
ParseCve(vuln) ==
    LET cve == Get(vuln, "cve", EmptyDict)
        cve_id == Get(cve, "id", UnknownId)
        description == EnglishDescription(Get(cve, "descriptions", <<>>))
        cvss_v3 == CvssData(Get(cve, "metrics", EmptyDict))
        cvss_score == Get(cvss_v3.value, "baseScore", NoScore)
        cvss_severity == Get(cvss_v3.value, "baseSeverity", UnknownSeverity)
        affected_products == AffectedProducts(Get(cve, "configurations", <<>>))
        reference_urls == ReferenceUrls(Get(cve, "references", <<>>))
        published == Get(cve, "published", NoPublished)
    IN  IF description.raised # ""
        THEN [raised |-> description.raised, cves |-> <<>>]
        ELSE IF cvss_v3.raised # ""
        THEN [raised |-> cvss_v3.raised, cves |-> <<>>]
        ELSE [raised |-> "",
              cves |-> << [cve_id |-> cve_id,
                           description |-> description.value,
                           cvss_score |-> cvss_score,
                           severity |-> cvss_severity,
                           affected_products |-> Prefix(affected_products, 10),
                           references |-> reference_urls,
                           published_date |-> published,
                           full_text |-> CreateFullText(cve_id, description.value,
                                             cvss_score, cvss_severity,
                                             affected_products, published)] >>]

\* _parse_cves(vulnerabilities): the records in order; an exception in one
\* record leaves the loop and the call
RECURSIVE ParseCves(_)
ParseCves(vulnerabilities) ==
    IF vulnerabilities = <<>>
    THEN [raised |-> "", cves |-> <<>>]
    ELSE LET first == ParseCve(Head(vulnerabilities))
             rest == ParseCves(Tail(vulnerabilities))
         IN  IF first.raised # "" THEN first
             ELSE IF rest.raised # "" THEN rest
             ELSE [raised |-> "", cves |-> first.cves \o rest.cves]

\* fetch_recent_cves: the feed answers with a list of raw records, or the
\* request fails and the empty list is returned
fetch_recent_cves(vulnerabilities, requestFails) ==
    LET parsed == ParseCves(vulnerabilities)
    IN  /\ op' = [name |-> "fetch_recent_cves", vulnerabilities |-> vulnerabilities,
                  requestFails |-> requestFails]
        /\ pre' = Snapshot
        /\ results' = <<>>
        /\ IF requestFails
           THEN /\ returned' = "list"
                /\ cves' = <<>>
           ELSE IF parsed.raised # ""
           THEN /\ returned' = "raise:" \o parsed.raised
                /\ UNCHANGED cves
           ELSE /\ returned' = "list"
                /\ cves' = parsed.cves
        /\ UNCHANGED <<instance, built, build_call, readers, query_embedding, feed>>

\* the optional fields of a raw record's 'cve' object, with a value for each
OptionalFields == {"id", "descriptions", "metrics", "configurations", "published"}

RawValue(field) ==
    CASE field = "id" -> "CVE-2024-0001"
      [] field = "descriptions" ->
             <<[lang |-> "es", value |-> "descripcion"],
               [lang |-> "en", value |-> "description"]>>
      [] field = "metrics" ->
             [cvssMetricV31 |->
                 <<[cvssData |-> [baseScore |-> 9, baseSeverity |-> "CRITICAL"]]>>]
      [] field = "configurations" ->
             <<[nodes |-> <<[cpeMatch |->
                 <<[vulnerable |-> TRUE, criteria |-> "cpe:/a"],
                   [vulnerable |-> FALSE, criteria |-> "cpe:/b"],
                   [vulnerable |-> TRUE]>>]>>]>>
      [] field = "published" -> "2024-05-01"
      [] field = "references" -> <<[url |-> "https://nvd"], [source |-> "nvd"]>>

\* a raw record whose 'cve' object has the given optional fields
RawCve(fields) == [cve |-> [f \in fields \cup {"references"} |-> RawValue(f)]]

\* a complete raw record with one field replaced
RawCveWith(field, value) ==
    [cve |-> [f \in OptionalFields \cup {"references"} |->
                 IF f = field THEN value ELSE RawValue(f)]]

\* raw records that lack optional parts at every depth
SparseRawCves ==
    {RawCve(fields) : fields \in {fs \in SUBSET OptionalFields :
                                      Cardinality(fs) \notin {2, 3}}}
    \cup { [source |-> "nvd"],
           RawCveWith("metrics", [cvssMetricV2 |-> <<>>]),
           RawCveWith("metrics", [cvssMetricV31 |-> <<[source |-> "nvd"]>>]),
           RawCveWith("metrics", [cvssMetricV31 |-> <<[cvssData |-> [baseScore |-> 9]]>>]),
           RawCveWith("descriptions", <<[lang |-> "es", value |-> "descripcion"]>>),
           RawCveWith("configurations", <<[operator |-> "OR"]>>) }

\* raw records of a shape the loop does not expect
MalformedRawCves ==
    { RawCveWith("metrics", [cvssMetricV31 |-> <<>>]),
      RawCveWith("descriptions", <<[lang |-> "en"]>>) }

RawCves == SparseRawCves \cup MalformedRawCves

\* the answers of the API: a list of raw records, or a failed request
Feed(vulnerabilities, requestFails) ==
    [vulnerabilities |-> vulnerabilities, requestFails |-> requestFails]

Feeds == {Feed(v, f) : v \in SeqUpTo(RawCves, MaxRaw), f \in BOOLEAN}

----------------------------------------------------------------------------
(* chatbot.py: LLMInterface and SecurityChatbot *)

\* did a call end by raising
Raised(r) == r \notin {"None", "True", "False", "list", "dict", "running"}

\* chat's top_k
ChatTopK == 5

\* how a request to the text generator ends: an answer, a refused connection,
\* or any other error of the API (HTTP error status, bad payload, timeout)
LlmOutcomes == {"ok", "connection_error", "api_error"}

\* the strings the generator's handlers return
Answer == "answer"
CannotConnect ==
    "Error: Cannot connect to Ollama. Make sure Ollama is running (ollama serve)."
ErrorGenerating(outcome) == "Error generating response: " \o outcome

ErrorResponses == {CannotConnect} \cup {ErrorGenerating(o) : o \in LlmOutcomes}

\* (mutant) the request is made outside the try block
GenerateOpenai_Unguarded(prompt, outcome) ==
    IF outcome = "ok"
    THEN [raised |-> "", value |-> Answer]
    ELSE [raised |-> "APIError", value |-> ""]

\* _generate_openai: every exception of the request becomes the returned string
GenerateOpenai(prompt, outcome) ==
    IF outcome = "ok"
    THEN [raised |-> "", value |-> Answer]
    ELSE [raised |-> "", value |-> ErrorGenerating(outcome)]

\* _generate_ollama: a ConnectionError and every other exception become strings
GenerateOllama(prompt, outcome) ==
    IF outcome = "ok"
    THEN [raised |-> "", value |-> Answer]
    ELSE IF outcome = "connection_error"
    THEN [raised |-> "", value |-> CannotConnect]
    ELSE [raised |-> "", value |-> ErrorGenerating(outcome)]

GenerateResponse(use_ollama, prompt, outcome) ==
    IF use_ollama THEN GenerateOllama(prompt, outcome)
    ELSE GenerateOpenai(prompt, outcome)

\* the prompt without context information
NoContextPrompt(query) == [template |-> "no_context", question |-> query]

\* one numbered section of the context text
ContextSection(i, doc) ==
    IF Get(doc.metadata, "source", "unknown") = "cve"
    THEN <<"CVE Information", i, Get(doc.metadata, "cve_id", "Unknown"),
           Get(doc.metadata, "severity", "Unknown"), doc.content>>
    ELSE <<"Infrastructure Information", i, doc.content>>

BuildPrompt(query, context_docs) ==
    IF context_docs = <<>>
    THEN NoContextPrompt(query)
    ELSE [template |-> "context",
          context_text |-> [i \in 1..Len(context_docs) |->
                               ContextSection(i, context_docs[i])],
          question |-> query]

\* f"{cve_id} ({severity})"
SourceEntry(cve_id, severity) == cve_id \o " (" \o severity \o ")"

\* (mutant) the set of seen ids is not consulted
IsNewSource_Unseen(cve_id, seen_cves) == cve_id # ""

\* `if cve_id and cve_id not in seen_cves`; an absent cve_id (None) is "" here,
\* falsy like the empty string
IsNewSource(cve_id, seen_cves) == cve_id # "" /\ cve_id \notin seen_cves

RECURSIVE ExtractFrom(_, _)
ExtractFrom(context_docs, seen_cves) ==
    IF context_docs = <<>>
    THEN <<>>
    ELSE LET md == Head(context_docs).metadata
             cve_id == Get(md, "cve_id", "")
         IN  IF Get(md, "source", "") = "cve" /\ IsNewSource(cve_id, seen_cves)
             THEN <<SourceEntry(cve_id, Get(md, "severity", "Unknown"))>>
                  \o ExtractFrom(Tail(context_docs), seen_cves \cup {cve_id})
             ELSE ExtractFrom(Tail(context_docs), seen_cves)

ExtractSources(context_docs) == ExtractFrom(context_docs, {})

\* (mutant) retrieval is attempted whatever include_context says
UsesRetrieval_IgnoresFlag(include_context, ix) == ~ix.null

\* `if include_context and self.rag.index is not None`
UsesRetrieval(include_context, ix) == include_context /\ ~ix.null

\* (mutant) the new entry replaces the history
HistoryAfterChat_Replace(history, entry) == <<entry>>

\* self.conversation_history.append(...)
HistoryAfterChat(history, entry) == Append(history, entry)

\* SecurityChatbot(rag, llm) around the pipeline instance
NewChatbot(use_ollama) ==
    /\ chatbot.null
    /\ chatbot' = [null |-> FALSE, use_ollama |-> use_ollama]
    /\ conversation_history' = <<>>
    /\ chat_calls' = 0
    /\ op' = [name |-> "SecurityChatbot", use_ollama |-> use_ollama]
    /\ pre' = Snapshot
    /\ returned' = "None"
    /\ results' = <<>>
    /\ UNCHANGED <<instance, built, aside, cve_file, reply, setup>>

chat(user_query, include_context, encodeRaises, outcome) ==
    LET retrieves == UsesRetrieval(include_context, index)
        r == IF retrieves
             THEN Retrieval(embedding_model, index, documents, metadata,
                            user_query, ChatTopK, encodeRaises)
             ELSE [returned |-> "list", results |-> <<>>]
        context_docs == r.results
        prompt == BuildPrompt(user_query, context_docs)
        response == GenerateResponse(chatbot.use_ollama, prompt, outcome)
        raised == IF Raised(r.returned) THEN r.returned
                  ELSE IF response.raised # "" THEN "raise:" \o response.raised
                  ELSE ""
    IN  /\ ~chatbot.null
        /\ op' = [name |-> "chat", user_query |-> user_query,
                  include_context |-> include_context, retrieves |-> retrieves,
                  retrieved |-> r, prompt |-> prompt, outcome |-> outcome,
                  history |-> conversation_history]
        /\ pre' = Snapshot
        /\ results' = <<>>
        /\ IF raised # ""
           THEN /\ returned' = raised
                /\ UNCHANGED <<conversation_history, chat_calls, reply>>
           ELSE /\ returned' = "dict"
                /\ conversation_history' =
                       HistoryAfterChat(conversation_history,
                                        [query |-> user_query,
                                         response |-> response.value,
                                         context_used |-> Len(context_docs) > 0])
                /\ chat_calls' = chat_calls + 1
                /\ reply' = [response |-> response.value,
                             context_documents |-> context_docs,
                             sources |-> ExtractSources(context_docs)]
        /\ UNCHANGED <<instance, built, aside, chatbot, cve_file, setup>>

clear_history ==
    /\ ~chatbot.null
    /\ conversation_history' = <<>>
    /\ chat_calls' = 0
    /\ op' = [name |-> "clear_history", history |-> conversation_history]
    /\ pre' = Snapshot
    /\ returned' = "None"
    /\ results' = <<>>
    /\ UNCHANGED <<instance, built, aside, chatbot, cve_file, reply, setup>>

\* _extract_sources on a list of context documents
extract_sources(context_docs) ==
    /\ ~chatbot.null
    /\ reply' = [response |-> "", context_documents |-> context_docs,
                 sources |-> ExtractSources(context_docs)]
    /\ op' = [name |-> "_extract_sources", context_docs |-> context_docs]
    /\ pre' = Snapshot
    /\ returned' = "list"
    /\ results' = <<>>
    /\ UNCHANGED <<instance, built, aside, chatbot, conversation_history,
                   chat_calls, cve_file, setup>>

----------------------------------------------------------------------------
(* chatbot.py create_chatbot and app.py refresh_knowledge_base, call by call *)

\* a description as the splitter sees it: the default is a short text, a
\* description of the feed a longer one
DescriptionWords(description) ==
    IF description = NoDescription THEN <<1>> ELSE <<2>>

\* the text _create_full_text renders: the header lines, the description and
\* the closing lines, which end with a newline
FullTextWords(full_text) == <<1>> \o DescriptionWords(full_text[5]) \o <<0>>

\* the parsed records as build_knowledge_base reads them
AsCveData(parsed) ==
    [i \in 1..Len(parsed) |-> [parsed[i] EXCEPT !.full_text = FullTextWords(@)]]

\* json.dump(cves) to data/cve_data.json
JsonDump(parsed) == [exists |-> TRUE, cves |-> parsed]

\* json.load of data/cve_data.json
JsonLoad(file) == file.cves

load_from_file ==
    /\ op' = [name |-> "load_from_file"]
    /\ pre' = Snapshot
    /\ results' = <<>>
    /\ returned' = "list"
    /\ cves' = IF cve_file.exists THEN JsonLoad(cve_file) ELSE <<>>
    /\ UNCHANGED <<instance, built, build_call, readers, query_embedding, feed>>

\* what the NVD API answers while the application runs
AppFeeds ==
    { Feed(<<>>, TRUE),
      Feed(<<>>, FALSE),
      Feed(<<RawCve(OptionalFields)>>, FALSE),
      Feed(<<[source |-> "nvd"], RawCve(OptionalFields)>>, FALSE),
      Feed(<<RawCve(OptionalFields), RawCveWith("metrics", [cvssMetricV31 |-> <<>>])>>,
           FALSE) }

\* the setup after one more call: an exception ends it with the given result
Advance(name, r, next, failure) ==
    [setup EXCEPT !.calls = Append(@, [name |-> name, returned |-> r]),
                  !.pc = IF Raised(r) THEN "idle" ELSE next,
                  !.result = IF Raised(r) THEN failure ELSE @]

\* (mutant) the knowledge base is rebuilt whatever load_index returned
AfterLoad_AlwaysBuild(r) == "collect"

\* `if rag.load_index(): ... else: ...`
AfterLoad(r) == IF r = "True" THEN "llm" ELSE "collect"

\* a new session (a new process, or a new browser session): no chatbot yet
NewSession ==
    /\ setup.pc = "idle"
    /\ ~chatbot.null
    /\ chatbot' = NoChatbot
    /\ conversation_history' = <<>>
    /\ chat_calls' = 0
    /\ reply' = NoReply
    /\ setup' = NoSetup
    /\ op' = [name |-> "initialize_session_state"]
    /\ pre' = Snapshot
    /\ returned' = "None"
    /\ results' = <<>>
    /\ UNCHANGED <<instance, built, aside, cve_file>>

\* create_chatbot, line 285: rag = SecurityRAGPipeline()
CreateBegin(use_ollama) ==
    /\ setup.pc = "idle"
    /\ chatbot.null
    /\ NewPipeline(DefaultModel)
    /\ setup' = [name |-> "create_chatbot", pc |-> "load", calls |-> <<>>,
                 result |-> "", fetched |-> <<>>, use_ollama |-> use_ollama]
    /\ UNCHANGED <<chatbot, conversation_history, cve_file, reply, chat_calls>>

\* line 288: rag.load_index()
CreateLoad ==
    /\ setup.name = "create_chatbot" /\ setup.pc = "load"
    /\ load_index
    /\ setup' = Advance("load_index", returned', AfterLoad(returned'), "None")
    /\ UNCHANGED <<chatbot, conversation_history, cve_file, reply, chat_calls>>

\* lines 294-299: the CVE list, from the file when there is one
CreateCollect ==
    /\ setup.name = "create_chatbot" /\ setup.pc = "collect"
    /\ IF cve_file.exists
       THEN /\ load_from_file
            /\ setup' = Advance("load_from_file", returned', "build", "None")
            /\ UNCHANGED cve_file
       ELSE \E f \in AppFeeds :
                /\ fetch_recent_cves(f.vulnerabilities, f.requestFails)
                /\ cve_file' = IF Raised(returned') THEN cve_file ELSE JsonDump(cves')
                /\ setup' = [Advance("fetch_recent_cves", returned', "build", "None")
                                EXCEPT !.fetched = <<f>>]
    /\ UNCHANGED <<chatbot, conversation_history, reply, chat_calls>>

\* lines 302-303: rag.build_knowledge_base(cves, infrastructure)
CreateBuild ==
    /\ setup.name = "create_chatbot" /\ setup.pc = "build"
    /\ \E encodeRaises \in BOOLEAN :
           build_knowledge_base(AsCveData(cves), SampleInfrastructure, encodeRaises)
    /\ setup' = Advance("build_knowledge_base", returned', "save", "None")
    /\ UNCHANGED <<chatbot, conversation_history, cve_file, reply, chat_calls>>

\* line 304: rag.save_index()
CreateSave ==
    /\ setup.name = "create_chatbot" /\ setup.pc = "save"
    /\ \E nullWrite \in NullWrites : save_index(nullWrite)
    /\ setup' = Advance("save_index", returned', "llm", "None")
    /\ UNCHANGED <<chatbot, conversation_history, cve_file, reply, chat_calls>>

\* lines 307-319: the LLM interface, whose constructor may raise (no API key,
\* missing library), and the chatbot around the pipeline
CreateChatbot ==
    /\ setup.name = "create_chatbot" /\ setup.pc = "llm"
    /\ \E llmRaises \in BOOLEAN :
           IF llmRaises
           THEN /\ setup' = [setup EXCEPT !.pc = "idle", !.result = "None"]
                /\ returned' = "raise:ValueError"
                /\ UNCHANGED <<chatbot, conversation_history, chat_calls>>
           ELSE /\ setup' = [setup EXCEPT !.pc = "idle", !.result = "SecurityChatbot"]
                /\ returned' = "None"
                /\ chatbot' = [null |-> FALSE, use_ollama |-> setup.use_ollama]
                /\ conversation_history' = <<>>
                /\ chat_calls' = 0
    /\ op' = [name |-> "LLMInterface", use_ollama |-> setup.use_ollama]
    /\ pre' = Snapshot
    /\ results' = <<>>
    /\ UNCHANGED <<instance, built, aside, cve_file, reply>>

\* refresh_knowledge_base, lines 101-103: fetch the feed and dump the list
RefreshFetch ==
    /\ setup.pc = "idle"
    /\ ~chatbot.null
    /\ \E f \in AppFeeds :
           /\ fetch_recent_cves(f.vulnerabilities, f.requestFails)
           /\ cve_file' = IF Raised(returned') THEN cve_file ELSE JsonDump(cves')
           /\ setup' = [name |-> "refresh_knowledge_base",
                        pc |-> IF Raised(returned') THEN "idle" ELSE "build",
                        calls |-> <<[name |-> "fetch_recent_cves",
                                     returned |-> returned']>>,
                        result |-> IF Raised(returned') THEN "False" ELSE "",
                        fetched |-> <<f>>, use_ollama |-> chatbot.use_ollama]
    /\ UNCHANGED <<chatbot, conversation_history, reply, chat_calls>>

\* lines 106-107: chatbot.rag.build_knowledge_base(cves, infrastructure)
RefreshBuild ==
    /\ setup.name = "refresh_knowledge_base" /\ setup.pc = "build"
    /\ \E encodeRaises \in BOOLEAN :
           build_knowledge_base(AsCveData(cves), SampleInfrastructure, encodeRaises)
    /\ setup' = Advance("build_knowledge_base", returned', "save", "False")
    /\ UNCHANGED <<chatbot, conversation_history, cve_file, reply, chat_calls>>

\* lines 108-111: chatbot.rag.save_index(), then return True
RefreshSave ==
    /\ setup.name = "refresh_knowledge_base" /\ setup.pc = "save"
    /\ \E nullWrite \in NullWrites : save_index(nullWrite)
    /\ setup' = [Advance("save_index", returned', "idle", "False")
                    EXCEPT !.result = IF Raised(returned') THEN "False" ELSE "True"]
    /\ UNCHANGED <<chatbot, conversation_history, cve_file, reply, chat_calls>>

----------------------------------------------------------------------------
(* Specifications *)

Build(cveLists, infraLists) ==
    \E cve_data \in cveLists, infrastructure_data \in infraLists,
       encodeRaises \in BOOLEAN :
        /\ build_knowledge_base(cve_data, infrastructure_data, encodeRaises)
        /\ UNCHANGED app

Add ==
    \E text \in CustomTexts, md \in CustomMetadata, encodeRaises \in BOOLEAN :
        /\ Len(documents) + Len(SplitText(text)) <= MaxStore
        /\ add_custom_document(text, md, encodeRaises)
        /\ UNCHANGED app

\* add_custom_document with whatever metadata the caller passes
AddAny ==
    \E text \in CustomTexts, md \in AnyMetadata, encodeRaises \in BOOLEAN :
        /\ Len(documents) + Len(SplitText(text)) <= MaxStore
        /\ add_custom_document(text, md, encodeRaises)
        /\ UNCHANGED app

Retrieve ==
    \E query \in Queries, top_k \in TopKs, encodeRaises \in BOOLEAN :
        /\ retrieve(query, top_k, encodeRaises)
        /\ UNCHANGED app

Save == \E nullWrite \in NullWrites : save_index(nullWrite) /\ UNCHANGED app

Load == load_index /\ UNCHANGED app

Construct == \E m \in Models : NewPipeline(m) /\ UNCHANGED app

Outside ==
    \/ \E file \in {"index_file", "docs_file"} : RemoveFile(file) /\ UNCHANGED app
    \/ \E key \in {"", "documents", "metadata"} : DamageDocsFile(key) /\ UNCHANGED app

\* one instance in memory: builds, appends and retrievals
Next == Build(CveLists(MaxCves), InfraLists) \/ Add \/ Retrieve

Spec == Init /\ [][Next]_vars

\* one instance and its directory: builds, appends of any metadata, save and load
NextCustom ==
    \/ Build(SeqUpTo(GoodCves, 1), {<<>>})
    \/ AddAny
    \/ Save
    \/ Load

SpecCustom == Init /\ [][NextCustom]_vars

\* a rebuild runs statement by statement while another thread retrieves
BeginBuild ==
    \E cve_data \in SeqUpTo(GoodCves, 1), encodeRaises \in BOOLEAN :
        BuildBegin(cve_data, <<>>, encodeRaises)

RetrieveWhileBuilding ==
    \E query \in Queries, top_k \in ReaderTopKs :
        retrieve(query, top_k, FALSE) /\ UNCHANGED app

NextRace ==
    \/ BeginBuild
    \/ BuildNewIndex
    \/ BuildIndexAdd
    \/ BuildSetDocuments
    \/ BuildSetMetadata
    \/ RetrieveWhileBuilding

SpecRace == Init /\ [][NextRace]_vars

\* retrievals from several threads; a build only while no thread is inside retrieve
BuildAlone ==
    /\ \A t \in Threads : readers[t].pc = "idle"
    /\ Build(SeqUpTo(GoodCves, 1) \ {<<>>}, {<<>>})

BeginRead ==
    \E t \in Threads, query \in Queries, top_k \in ReaderTopKs :
        ReadBegin(t, query, top_k, FALSE)

NextReaders ==
    \/ BuildAlone
    \/ BeginRead
    \/ \E t \in Threads : ReadEncode(t)
    \/ \E t \in Threads : ReadSearch(t)
    \/ \E t \in Threads : ReadCollect(t)
    \/ \E t \in Threads : ReadReturn(t)

SpecReaders == Init /\ [][NextReaders]_vars

\* a fresh pipeline is built from one document, of any text
ChunkTexts == SeqUpTo(0..MaxWord, MaxTextWords)

BuildOneDocument ==
    /\ index.null
    /\ \E t \in ChunkTexts, encodeRaises \in BOOLEAN :
           \/ build_knowledge_base(<<Cve("CVE-1", t, "HIGH", 8)>>, <<>>, encodeRaises)
           \/ build_knowledge_base(<<>>, <<[name |-> "Web Server Cluster",
                                            description |-> t]>>, encodeRaises)
    /\ UNCHANGED app

NextChunker == BuildOneDocument

SpecChunker == Init /\ [][NextChunker]_vars

\* a chatbot around the pipeline: the store is built, saved and loaded, the
\* chatbot is constructed, then it answers and forgets
ChatCveLists == {<<>>, <<Cve("CVE-1", <<1>>, "HIGH", 8)>>}

ChatQueries == {<<1>>}

\* the store is prepared before the chatbot is constructed around it
PrepareStore ==
    /\ chatbot.null
    /\ Build(ChatCveLists, {<<>>, SampleInfrastructure})

StartChatbot == \E use_ollama \in BOOLEAN : NewChatbot(use_ollama)

Chat ==
    \E user_query \in ChatQueries, include_context \in BOOLEAN,
       encodeRaises \in BOOLEAN, outcome \in LlmOutcomes :
        /\ Len(conversation_history) < MaxChats
        /\ chat(user_query, include_context, encodeRaises, outcome)

ClearHistory == clear_history

NextChat ==
    \/ PrepareStore
    \/ StartChatbot
    \/ Chat
    \/ ClearHistory

SpecChat == Init /\ [][NextChat]_vars

\* a chatbot around a store that was built, saved and, in a new process, loaded
\* from a directory that may have lost its documents; the chatbot answers once
RestoreStore ==
    /\ chatbot.null
    /\ \/ Build(ChatCveLists, {SampleInfrastructure})
       \/ ~index.null /\ Save
       \/ DamageDocsFile("documents") /\ UNCHANGED app
       \/ ~index.null /\ NewPipeline(DefaultModel) /\ UNCHANGED app
       \/ index.null /\ Load

FirstChat ==
    \E user_query \in ChatQueries, include_context \in BOOLEAN,
       encodeRaises \in BOOLEAN, outcome \in LlmOutcomes :
        /\ conversation_history = <<>>
        /\ chat(user_query, include_context, encodeRaises, outcome)

NextFallback == RestoreStore \/ StartChatbot \/ FirstChat

SpecFallback == Init /\ [][NextFallback]_vars

\* _extract_sources alone, on lists of context documents of every kind
SourceMetadata ==
    { [source |-> "cve", cve_id |-> "CVE-1", severity |-> "HIGH"],
      [source |-> "cve", cve_id |-> "CVE-1", severity |-> "LOW"],
      [source |-> "cve", cve_id |-> "CVE-2"],
      [source |-> "cve", cve_id |-> "", severity |-> "HIGH"],
      [source |-> "cve", severity |-> "HIGH"],
      [source |-> "infrastructure", asset_name |-> "Database Server"],
      [source |-> "custom", cve_id |-> "CVE-3", severity |-> "HIGH"],
      [cve_id |-> "CVE-3", severity |-> "LOW"] }

ContextDocs ==
    { [content |-> <<1>>, metadata |-> md, relevance_score |-> RelevanceScore(0)] :
          md \in SourceMetadata }

\* the first call on a new chatbot
Sources ==
    /\ reply = NoReply
    /\ \E context_docs \in SeqUpTo(ContextDocs, MaxContext) :
           extract_sources(context_docs)

NextSources == StartChatbot \/ Sources

SpecSources == Init /\ [][NextSources]_vars

\* the application: sessions create their chatbot and refresh its knowledge
\* base, over the directory and the CVE file that outlive them
NextApp ==
    \/ NewSession
    \/ \E use_ollama \in BOOLEAN : CreateBegin(use_ollama)
    \/ CreateLoad
    \/ CreateCollect
    \/ CreateBuild
    \/ CreateSave
    \/ CreateChatbot
    \/ RefreshFetch
    \/ RefreshBuild
    \/ RefreshSave

SpecApp == Init /\ [][NextApp]_vars

\* the collector alone
Fetch == fetch_recent_cves(feed.vulnerabilities, feed.requestFails) /\ UNCHANGED app

NextCollector == Fetch

InitCollector == Constructed /\ feed \in Feeds

SpecCollector == InitCollector /\ [][NextCollector]_vars

\* the builds and appends that complete
NextCompleted ==
    \/ Build(CveLists(MaxCves), InfraLists) /\ ~Raised(returned')
    \/ Add /\ ~Raised(returned')

SpecCompleted == Init /\ [][NextCompleted]_vars

\* the life cycle of an instance and its directory, on single-record builds
NextLifecycle ==
    \/ Build(SeqUpTo(GoodCves, 1), {<<>>})
    \/ Save
    \/ Load
    \/ Construct

\* the life cycle with retrievals
NextPersist == NextLifecycle \/ Retrieve

SpecPersist == Init /\ [][NextPersist]_vars

\* the life cycle with a directory that is also changed from outside
NextOutside == NextLifecycle \/ Outside

SpecOutside == Init /\ [][NextOutside]_vars

----------------------------------------------------------------------------
(* Properties *)

Min(a, b) == IF a < b THEN a ELSE b

\* index, documents and metadata have one entry per position
Consistent ==
    /\ Len(documents) = Len(metadata)
    /\ IF index.null THEN documents = <<>> ELSE ntotal(index) = Len(documents)

\* C1: on a built store with n stored vectors, for every top_k > 0, retrieve
\* returns exactly min(top_k, n) results (the embedder not failing)
C1_RetrieveReturnsMinTopKN ==
    (/\ op.name = "retrieve"
     /\ op.top_k > 0
     /\ built
     /\ Consistent
     /\ returned # "raise:RuntimeError")
    => (/\ returned = "list"
        /\ Len(results) = Min(op.top_k, ntotal(index)))

\* C2: after any sequence of completed build_knowledge_base and
\* add_custom_document calls, documents, metadata and the index have the same
\* length and position p of the three is the same chunk
C2_ParallelPositions ==
    /\ Consistent
    /\ \A p \in 1..Len(documents) :
           /\ metadata[p] = documents[p].metadata
           /\ index.xb[p] = Embed(embedding_model, documents[p].page_content)

\* C2 witness: an append has completed on a built store
C2_Witness ==
    /\ op.name = "add_custom_document"
    /\ returned = "None"
    /\ pre.documents # <<>>
    /\ Len(documents) > Len(pre.documents)

\* C3: a build_knowledge_base or add_custom_document that raises leaves
\* index, documents and metadata as they were before the call
C3_RaiseLeavesStore ==
    (/\ op.name \in {"build_knowledge_base", "add_custom_document"}
     /\ Raised(returned))
    => Snapshot = pre

\* C4: retrieve on a store on which no build or restore has succeeded returns
\* an empty list, does not raise, does not call the embedder and changes nothing
C4_UnbuiltRetrieveIsEmpty ==
    (op.name = "retrieve" /\ ~built)
    => (/\ returned = "list"
        /\ results = <<>>
        /\ ~op.encoded
        /\ Snapshot = pre)

\* the chunk texts of a list of texts, in order
RECURSIVE ChunksOfTexts(_)
ChunksOfTexts(ts) ==
    IF ts = <<>> THEN <<>> ELSE SplitText(Head(ts)) \o ChunksOfTexts(Tail(ts))

\* C5: after build_knowledge_base completes the store holds exactly the chunks
\* of the given CVE documents followed by those of the infrastructure
\* documents, in input order, whatever it held before
C5_BuildReplacesAll ==
    (op.name = "build_knowledge_base" /\ returned = "None")
    => LET cveChunks ==
               ChunksOfTexts([i \in 1..Len(op.cve_data) |-> op.cve_data[i].full_text])
           infraChunks ==
               ChunksOfTexts([i \in 1..Len(op.infrastructure_data) |->
                                 op.infrastructure_data[i].description])
       IN  /\ TextsOf(documents) = cveChunks \o infraChunks
           /\ Len(metadata) = Len(documents)
           /\ ntotal(index) = Len(documents)
           /\ \A p \in 1..Len(documents) :
                  /\ metadata[p].source =
                         (IF p <= Len(cveChunks) THEN "cve" ELSE "infrastructure")
                  /\ documents[p].metadata = metadata[p]
                  /\ index.xb[p] = Embed(embedding_model, documents[p].page_content)

\* C5 witness: a build has completed, with CVE and infrastructure documents,
\* on a store that held appended chunks
C5_Witness ==
    /\ op.name = "build_knowledge_base"
    /\ returned = "None"
    /\ Len(op.cve_data) = 2
    /\ op.cve_data[1] # op.cve_data[2]
    /\ op.infrastructure_data # <<>>
    /\ \E p \in 1..Len(pre.metadata) : pre.metadata[p].source = "custom"

\* C6: add_custom_document on a built store leaves every existing position
\* (vector, document, metadata) as it was, and puts the new chunks at the
\* positions old size, old size + 1, ... in order
C6_AppendKeepsPositions ==
    (op.name = "add_custom_document" /\ ~pre.index.null)
    => LET old == Len(pre.documents)
           new == SplitText(op.text)
       IN  /\ SubSeq(documents, 1, old) = pre.documents
           /\ SubSeq(metadata, 1, Len(pre.metadata)) = pre.metadata
           /\ SubSeq(index.xb, 1, ntotal(pre.index)) = pre.index.xb
           /\ returned = "None" =>
                  /\ Len(documents) = old + Len(new)
                  /\ \A i \in 1..Len(new) :
                         /\ documents[old + i] = Document(new[i], op.metadata)
                         /\ metadata[old + i] = op.metadata
                         /\ index.xb[ntotal(pre.index) + i] = Embed(embedding_model, new[i])

\* C6 witness: an append of two chunks has completed on a store of several chunks
C6_Witness ==
    /\ op.name = "add_custom_document"
    /\ returned = "None"
    /\ Len(pre.documents) >= 2
    /\ Len(documents) = Len(pre.documents) + 2

\* C7: add_custom_document before any build or restore either raises or adds
\* the document; it never returns normally with the document left out
C7_AddBeforeBuildRaisesOrAdds ==
    (op.name = "add_custom_document" /\ ~built /\ SplitText(op.text) # <<>>)
    => \/ Raised(returned)
       \/ \E p \in 1..Len(documents) : documents[p].page_content = SplitText(op.text)[1]

\* C8: load_index returns False, without raising, when the index file or the
\* documents file is absent, and leaves index, documents and metadata unchanged
C8_LoadAbsentReturnsFalse ==
    (op.name = "load_index" /\ (~disk.index_file.exists \/ ~disk.docs_file.exists))
    => (returned = "False" /\ Snapshot = pre)

\* C8 witness: load_index has run on a built store with the index file
\* present and the documents file absent
C8_Witness ==
    /\ op.name = "load_index"
    /\ disk.index_file.exists
    /\ ~disk.docs_file.exists
    /\ documents # <<>>

\* the persisted state is corrupt: a file does not parse, the documents file
\* lacks a key, or the index and the documents/metadata differ in length
CorruptDirectory(d) ==
    /\ d.index_file.exists /\ d.docs_file.exists
    /\ \/ ~d.index_file.valid
       \/ ~d.docs_file.valid
       \/ ~({"documents", "metadata"} \subseteq PickleKeys(d.docs_file))
       \/ Len(PickleLoad(d.docs_file, "documents")) # ntotal(ReadIndex(d.index_file))
       \/ Len(PickleLoad(d.docs_file, "metadata")) # ntotal(ReadIndex(d.index_file))

\* C9: load_index on a corrupt persisted state (here: one that save_index
\* wrote) gives a negative result and leaves index, documents and metadata
\* unchanged
C9_CorruptLoadIsRefused ==
    (op.name = "load_index" /\ saved # NotSaved /\ CorruptDirectory(disk))
    => (returned = "False" /\ Snapshot = pre)

\* C10: save_index of a built store followed by load_index on a fresh
\* instance of the same model gives the same vectors, documents and metadata
\* in the same order, and every retrieve gives the same results as before
C10_SaveLoadRoundTrip ==
    (/\ op.name = "load_index"
     /\ pre = Store(NoIndex, <<>>, <<>>)
     /\ saved # NotSaved
     /\ ~saved[1].store.index.null
     /\ saved[1].embedding_model = embedding_model)
    => /\ returned = "True"
       /\ Snapshot = saved[1].store
       /\ \A q \in Queries, k \in TopKs :
              Retrieval(embedding_model, index, documents, metadata, q, k, FALSE)
              = Retrieval(saved[1].embedding_model, saved[1].store.index,
                          saved[1].store.documents, saved[1].store.metadata, q, k, FALSE)

\* C10 witness: a fresh instance has loaded a saved store of two chunks
C10_Witness ==
    /\ op.name = "load_index"
    /\ returned = "True"
    /\ pre = Store(NoIndex, <<>>, <<>>)
    /\ saved # NotSaved
    /\ saved[1].embedding_model = embedding_model
    /\ ntotal(index) = 2
    /\ Len(documents) = 2

ScoreAtLeast(x, y) == x.num * y.den >= y.num * x.den

\* C12: the list retrieve returns is ordered by non-increasing
\* relevance_score: each result's score is >= the next one's
C12_ResultsByDescendingScore ==
    (op.name = "retrieve" /\ returned = "list")
    => \A i \in 1..(Len(results) - 1) :
           ScoreAtLeast(results[i].relevance_score, results[i + 1].relevance_score)

\* C12 witness: a retrieve on a built store returned two stored chunks whose
\* scores differ
C12_Witness ==
    /\ op.name = "retrieve"
    /\ returned = "list"
    /\ built
    /\ Consistent
    /\ Len(results) = 2
    /\ ntotal(index) >= 2
    /\ results[1].relevance_score # results[2].relevance_score
    /\ results[1].content # results[2].content

\* the pairs of a search that name a stored position
StoredNeighbours(pairs, n) ==
    SelectSeq(pairs, LAMBDA pr : 0 <= pr.label /\ pr.label < n)

\* C13: every result of retrieve is built from a stored position
\* 0 <= p < ntotal that the search reported, carries documents[p].page_content
\* and metadata[p], and no position is used twice
C13_ResultsAreStoredNeighbours ==
    (/\ op.name = "retrieve"
     /\ op.top_k > 0
     /\ built
     /\ Consistent
     /\ returned = "list")
    => LET stored == StoredNeighbours(
                         IndexSearch(index, Embed(embedding_model, op.query), op.top_k),
                         ntotal(index))
       IN  /\ \A i, j \in 1..Len(stored) : stored[i].label = stored[j].label => i = j
           /\ results = [i \in 1..Len(stored) |->
                            [content |-> documents[stored[i].label + 1].page_content,
                             metadata |-> metadata[stored[i].label + 1],
                             relevance_score |-> RelevanceScore(stored[i].distance)]]

\* C14: retrieve with top_k <= 0 on a built store gives an empty list, not an
\* error
C14_NonPositiveTopKIsEmpty ==
    (/\ op.name = "retrieve"
     /\ op.top_k <= 0
     /\ built
     /\ Consistent
     /\ returned # "raise:RuntimeError")
    => (returned = "list" /\ results = <<>>)

\* C15: whenever the index is non-null and holds no vector, whatever
\* documents and metadata hold, retrieve returns an empty list without raising
C15_EmptyIndexRetrieveIsEmpty ==
    (/\ op.name = "retrieve"
     /\ op.top_k > 0
     /\ ~index.null
     /\ ntotal(index) = 0
     /\ returned # "raise:RuntimeError")
    => (returned = "list" /\ results = <<>>)

\* C16: the store never holds a non-null index (here: one that holds
\* vectors) whose dimension differs from self.dimension
C16_IndexDimensionIsEmbedders ==
    (~index.null /\ ntotal(index) > 0) => index.d = dimension

\* C17: once a build or a load has succeeded, every stored chunk has
\* non-empty content and metadata that carries a 'source' tag
C17_ChunksHaveContentAndSource ==
    built =>
    /\ \A p \in 1..Len(documents) :
           /\ documents[p].page_content # <<>>
           /\ "source" \in DOMAIN documents[p].metadata
    /\ \A p \in 1..Len(metadata) : "source" \in DOMAIN metadata[p]

\* C18: a retrieve that runs during a rebuild sees the old index with the old
\* documents and metadata, or the new index with the new ones, never a mix
C18_RetrieveSeesOldOrNew ==
    (/\ op.name = "retrieve"
     /\ build_call # NoCall
     /\ build_call[1].split_docs # <<>>
     /\ OldStore.documents # <<>>)
    => pre \in {OldStore, NewStore}

\* C19: retrieve leaves index, documents and metadata as they were, and a
\* retrieve that ran interleaved with others returns what the same call
\* returns when run alone on the store
C19_InterleavedRetrieveAsAlone ==
    \A t \in Threads :
        /\ readers[t].pc # "idle" => Snapshot = readers[t].start
        /\ readers[t].pc = "done" =>
               [returned |-> readers[t].returned, results |-> readers[t].results]
               = Retrieval(embedding_model, index, documents, metadata,
                           readers[t].query, readers[t].top_k,
                           readers[t].encodeRaises)

\* C19 witness: on a built store a retrieve has returned results after its
\* search ran while another thread, with another query, was inside retrieve
C19_Witness ==
    \E t, u \in Threads :
        /\ t # u
        /\ built
        /\ readers[t].pc = "done"
        /\ readers[t].overlap
        /\ readers[t].returned = "list"
        /\ readers[t].results # <<>>
        /\ readers[u].pc \in {"search", "collect", "done"}
        /\ readers[u].query # readers[t].query

\* the 'cve' object of a raw record
CveOf(vuln) == Get(vuln, "cve", EmptyDict)

\* a raw record whose present parts have the shape the feed documents: a
\* metrics list, where there is one, is not empty, and an English description
\* entry has a value
WellFormed(vuln) ==
    LET cve == CveOf(vuln)
        metrics == Get(cve, "metrics", EmptyDict)
        descriptions == Get(cve, "descriptions", <<>>)
    IN  /\ "cvssMetricV31" \in DOMAIN metrics => Len(metrics.cvssMetricV31) > 0
        /\ \A i \in 1..Len(descriptions) :
               Get(descriptions[i], "lang", "") = "en"
                   => "value" \in DOMAIN descriptions[i]

\* C20: every raw record is emitted, at its place, and each optional field it
\* lacks has its default in the normalized record: cve_id 'Unknown',
\* description 'No description available', cvss_score 0.0, severity
\* 'UNKNOWN', no affected products, published_date ''
C20_AbsentFieldsGetDefaults ==
    (/\ op.name = "fetch_recent_cves"
     /\ ~op.requestFails
     /\ \A i \in 1..Len(op.vulnerabilities) : WellFormed(op.vulnerabilities[i]))
    => /\ returned = "list"
       /\ Len(cves) = Len(op.vulnerabilities)
       /\ \A i \in 1..Len(cves) :
              LET cve == CveOf(op.vulnerabilities[i])
                  metrics == Get(cve, "metrics", EmptyDict)
                  cvssData == IF "cvssMetricV31" \in DOMAIN metrics
                              THEN Get(metrics.cvssMetricV31[1], "cvssData", EmptyDict)
                              ELSE EmptyDict
              IN  /\ "id" \notin DOMAIN cve => cves[i].cve_id = "Unknown"
                  /\ "id" \in DOMAIN cve => cves[i].cve_id = cve.id
                  /\ "descriptions" \notin DOMAIN cve
                         => cves[i].description = "No description available"
                  /\ "baseScore" \notin DOMAIN cvssData => cves[i].cvss_score = 0
                  /\ "baseScore" \in DOMAIN cvssData
                         => cves[i].cvss_score = cvssData.baseScore
                  /\ "baseSeverity" \notin DOMAIN cvssData
                         => cves[i].severity = "UNKNOWN"
                  /\ "configurations" \notin DOMAIN cve
                         => cves[i].affected_products = <<>>
                  /\ "published" \notin DOMAIN cve => cves[i].published_date = ""
                  /\ "published" \in DOMAIN cve
                         => cves[i].published_date = cve.published

\* C20 witness: a batch of a record without any optional field and a
\* complete record has been parsed into two normalized records
C20_Witness ==
    /\ op.name = "fetch_recent_cves"
    /\ returned = "list"
    /\ Len(cves) = 2
    /\ op.vulnerabilities[1] = [source |-> "nvd"]
    /\ DOMAIN CveOf(op.vulnerabilities[2]) = OptionalFields \cup {"references"}
    /\ cves[1].cve_id = "Unknown"
    /\ cves[1].severity = "UNKNOWN"
    /\ cves[2].cve_id # "Unknown"
    /\ cves[2].description = "description"
    /\ cves[2].severity # "UNKNOWN"

\* C21: a malformed record does not abort the batch: no exception leaves
\* _parse_cves, and every well-formed record of the list is normalized, in
\* order
C21_MalformedRecordIsSkipped ==
    (/\ op.name = "fetch_recent_cves"
     /\ ~op.requestFails
     /\ \E i \in 1..Len(op.vulnerabilities) : WellFormed(op.vulnerabilities[i]))
    => /\ returned = "list"
       /\ cves = ParseCves(SelectSeq(op.vulnerabilities, WellFormed)).cves

\* the text of the one document a build was given
BuiltText ==
    IF op.cve_data # <<>> THEN op.cve_data[1].full_text
    ELSE op.infrastructure_data[1].description

\* the words that end chunk a and start chunk b: the longest suffix of a
\* that is a prefix of b
SharedWords(a, b) ==
    LET ns == {n \in 0..Min(Len(a), Len(b)) :
                   SubSeq(a, Len(a) - n + 1, Len(a)) = SubSeq(b, 1, n)}
        n == CHOOSE m \in ns : \A o \in ns : o <= m
    IN  SubSeq(b, 1, n)

\* C22: a document whose content is shorter than chunk_size (and not blank)
\* gives exactly one chunk, whose content is the document's content character
\* for character
C22_ShortDocumentIsOneChunk ==
    (/\ op.name = "build_knowledge_base"
     /\ returned # "raise:RuntimeError"
     /\ StripText(BuiltText) # <<>>
     /\ TextLen(BuiltText) < chunk_size)
    => /\ returned = "None"
       /\ Len(documents) = 1
       /\ documents[1].page_content = BuiltText

\* C23: the adjacent chunks of a document longer than chunk_size (here: one
\* in which no word follows itself) share exactly chunk_overlap characters,
\* and no chunk is longer than chunk_size
C23_AdjacentChunksOverlapExactly ==
    (/\ op.name = "build_knowledge_base"
     /\ returned = "None"
     /\ \A i \in 1..(Len(BuiltText) - 1) : BuiltText[i] # BuiltText[i + 1]
     /\ TextLen(BuiltText) > chunk_size)
    => /\ \A p \in 1..Len(documents) : TextLen(documents[p].page_content) <= chunk_size
       /\ \A p \in 1..(Len(documents) - 1) :
              TextLen(SharedWords(documents[p].page_content,
                                  documents[p + 1].page_content)) = chunk_overlap

\* the last chat call had no context: by its flag, by the unbuilt store, or by
\* a retrieval that gave nothing
ChatWithoutContext ==
    \/ ~op.include_context
    \/ pre.index.null
    \/ (op.retrieved.returned = "list" /\ op.retrieved.results = <<>>)

\* C24: a chat call without context (include_context False, index None, or
\* nothing retrieved) does not use retrieval results: it returns, the prompt
\* is the no-context prompt, context_documents and sources are empty and the
\* recorded context_used is False; with the flag off or the store unbuilt
\* retrieve is not even called
C24_NoContextFallsBack ==
    (op.name = "chat" /\ ChatWithoutContext)
    => /\ returned = "dict"
       /\ op.prompt = NoContextPrompt(op.user_query)
       /\ reply.context_documents = <<>>
       /\ reply.sources = <<>>
       /\ conversation_history # <<>>
       /\ ~conversation_history[Len(conversation_history)].context_used
       /\ (~op.include_context \/ pre.index.null) => ~op.retrieves

\* a chat on a loaded index whose documents were lost: retrieve is called and
\* gives nothing
C24_Witness ==
    /\ op.name = "chat"
    /\ op.include_context
    /\ ~pre.index.null
    /\ op.retrieves
    /\ op.retrieved.results = <<>>
    /\ returned = "dict"
    /\ op.prompt.template = "no_context"
    /\ ~conversation_history[1].context_used

\* the entry a returned chat call records
ChatEntry ==
    [query |-> op.user_query, response |-> reply.response,
     context_used |-> reply.context_documents # <<>>]

\* C26: a chat call that returns appends exactly one entry (query, response,
\* context_used) to the history it found, clear_history empties it, so the
\* history is as long as the number of chat calls returned since construction
\* or the last clear_history; neither call changes index, documents, metadata
C26_HistoryCountsChats ==
    /\ Len(conversation_history) = chat_calls
    /\ (op.name = "chat" /\ returned = "dict")
           => conversation_history = Append(op.history, ChatEntry)
    /\ (op.name = "chat" /\ returned # "dict") => conversation_history = op.history
    /\ op.name = "clear_history" => conversation_history = <<>>
    /\ op.name \in {"chat", "clear_history"} => Snapshot = pre

\* the second of two chats answered on a built store, the first without
\* context and the second with
C26_Witness ==
    /\ op.name = "chat"
    /\ returned = "dict"
    /\ Len(op.history) = 1
    /\ Len(conversation_history) = 2
    /\ conversation_history[1].query = op.history[1].query
    /\ conversation_history[2].context_used
    /\ ~conversation_history[1].context_used
    /\ ~index.null
    /\ chat_calls = 2

\* C29: a failure of the text generator is a value: when the request of a
\* chat call fails (connection or API error), generate_response raises nothing
\* and returns an error string, chat returns normally, and that string is the
\* response it returns and records in conversation_history
C29_GeneratorFailureIsAValue ==
    (/\ op.name = "chat"
     /\ op.outcome # "ok"
     /\ ~Raised(op.retrieved.returned))
    => /\ GenerateResponse(chatbot.use_ollama, op.prompt, op.outcome).raised = ""
       /\ returned = "dict"
       /\ reply.response \in ErrorResponses
       /\ reply.response =
              GenerateResponse(chatbot.use_ollama, op.prompt, op.outcome).value
       /\ conversation_history = Append(op.history, ChatEntry)
       /\ conversation_history[Len(conversation_history)].response = reply.response

\* Ollama is not running when a question about the built store is asked
C29_Witness ==
    /\ op.name = "chat"
    /\ op.outcome = "connection_error"
    /\ chatbot.use_ollama
    /\ op.retrieved.results # <<>>
    /\ returned = "dict"
    /\ reply.response = CannotConnect
    /\ conversation_history[Len(conversation_history)].response = CannotConnect

\* the positions of a list of context documents that name a CVE: source
\* 'cve' and a non-empty cve_id
CvePositions(docs) ==
    {i \in 1..Len(docs) : /\ Get(docs[i].metadata, "source", "") = "cve"
                          /\ Get(docs[i].metadata, "cve_id", "") # ""}

\* those at which a cve_id occurs for the first time
FirstOccurrences(docs) ==
    {i \in CvePositions(docs) :
        \A j \in CvePositions(docs) :
            j < i => docs[j].metadata.cve_id # docs[i].metadata.cve_id}

\* C28: _extract_sources returns one '<cve_id> (<severity>)' entry per
\* distinct non-empty cve_id among the documents of source 'cve', in order of
\* first occurrence; no cve_id twice, nothing from documents of other sources
C28_OneSourcePerCve ==
    op.name = "_extract_sources"
    => LET docs == op.context_docs
           firsts == FirstOccurrences(docs)
           rank(i) == Cardinality({j \in firsts : j <= i})
       IN  /\ returned = "list"
           /\ Len(reply.sources) = Cardinality(firsts)
           /\ \A i \in firsts :
                  reply.sources[rank(i)] =
                      SourceEntry(docs[i].metadata.cve_id,
                                  Get(docs[i].metadata, "severity", "Unknown"))
           /\ \A a, b \in 1..Len(reply.sources) :
                  a # b => reply.sources[a] # reply.sources[b]

\* a CVE that is retrieved twice, around a CVE without severity
C28_Witness ==
    /\ op.name = "_extract_sources"
    /\ Len(op.context_docs) = 3
    /\ op.context_docs[1].metadata = [source |-> "cve", cve_id |-> "CVE-1", severity |-> "HIGH"]
    /\ op.context_docs[2].metadata = [source |-> "cve", cve_id |-> "CVE-2"]
    /\ op.context_docs[3].metadata = [source |-> "cve", cve_id |-> "CVE-1", severity |-> "LOW"]
    /\ reply.sources = <<"CVE-1 (HIGH)", "CVE-2 (Unknown)">>

\* the names of the calls the running (or last) setup has made, in order
CallNames == [i \in 1..Len(setup.calls) |-> setup.calls[i].name]

\* C25: create_chatbot calls load_index first and once; when it returned True
\* nothing is rebuilt or saved; build_knowledge_base is called only after a
\* load_index that returned False, and save_index only right after a build
\* that completed; a chatbot returned after load_index returned False was
\* built and then saved; every chatbot returned has a non-null index
C25_LoadElseBuildAndSave ==
    setup.name = "create_chatbot"
    => LET calls == setup.calls
           names == CallNames
       IN  /\ \A i \in 1..Len(calls) : (names[i] = "load_index") <=> (i = 1)
           /\ (calls # <<>> /\ calls[1].returned = "True") => Len(calls) = 1
           /\ \A i \in 1..Len(calls) :
                  /\ names[i] = "build_knowledge_base" => calls[1].returned = "False"
                  /\ names[i] = "save_index"
                         => /\ i > 1
                            /\ calls[i - 1] = [name |-> "build_knowledge_base",
                                               returned |-> "None"]
           /\ setup.result = "SecurityChatbot"
                  => /\ ~chatbot.null
                     /\ ~index.null
                     /\ calls # <<>>
                     /\ calls[1].returned \in {"True", "False"}
                     /\ calls[1].returned = "False"
                            => /\ Len(calls) = 4
                               /\ names[2] \in {"load_from_file", "fetch_recent_cves"}
                               /\ names[3] = "build_knowledge_base"
                               /\ names[4] = "save_index"
                               /\ \A i \in 2..4 : ~Raised(calls[i].returned)

\* a first run that finds no vector store, fetches, builds, saves and
\* returns its chatbot
C25_Witness ==
    /\ setup.name = "create_chatbot"
    /\ setup.result = "SecurityChatbot"
    /\ CallNames = <<"load_index", "fetch_recent_cves", "build_knowledge_base",
                     "save_index">>
    /\ setup.calls[1].returned = "False"
    /\ ~chatbot.null
    /\ ~index.null
    /\ saved # NotSaved

\* the list a refresh has freshly fetched: the records of the API's answer
\* that can be normalized, none when the request failed
FreshCves ==
    LET f == setup.fetched[1]
    IN  IF f.requestFails THEN <<>>
        ELSE ParseCves(SelectSeq(f.vulnerabilities, WellFormed)).cves

\* the store built from that list and the sample infrastructure
RefreshedStore ==
    LET docs == SplitDocuments(BuildDocuments(AsCveData(FreshCves),
                                              SampleInfrastructure))
    IN  Store(IndexAdd(IndexFlatL2(dimension),
                       Encode(embedding_model, TextsOf(docs))),
              docs, MetadataOf(docs))

\* C27: a refresh_knowledge_base that has ended (the encoder not failing)
\* has replaced the whole store by the chunks of the freshly fetched CVE list
\* and the sample infrastructure, has overwritten the CVE file with that list
\* and the saved index and documents with that store; after a failed or empty
\* fetch the store and the directory hold infrastructure chunks only
C27_RefreshReplacesAndPersists ==
    (/\ setup.name = "refresh_knowledge_base"
     /\ setup.pc = "idle"
     /\ \A i \in 1..Len(setup.calls) : setup.calls[i].returned # "raise:RuntimeError")
    => /\ setup.result = "True"
       /\ Snapshot = RefreshedStore
       /\ cve_file = JsonDump(FreshCves)
       /\ disk.index_file = WriteIndex(index)
       /\ disk.docs_file = PickleDump(documents, metadata)
       /\ FreshCves = <<>>
              => /\ Len(documents) = Len(SampleInfrastructure)
                 /\ \A i \in 1..Len(metadata) : metadata[i].source = "infrastructure"
                 /\ PickleLoad(disk.docs_file, "metadata") = metadata

====
